---- MODULE Spec2Model ----
(***************************************************************************)
(* Model of the find-id flow: the form controller useFindId, the component *)
(* FindIdComponent that gates its events, and the client-side AuthService  *)
(* (checkDuplicate, checkEmailDuplicate, validateSignupData).              *)
(*                                                                         *)
(* Strings are sequences of one-character strings, so that trimming and    *)
(* the two e-mail patterns are computed character by character.  The       *)
(* Korean message literals of the source are written as ASCII glosses; the *)
(* comment at each gloss names the literal's line.                         *)
(***************************************************************************)
EXTENDS Integers, Sequences, FiniteSets, TLC

VARIABLES
    email,       \* useFindId: useState('')             (useFindId.ts:21)
    isChecking,  \* useFindId: useState(false)          (useFindId.ts:22)
    status,      \* useFindId: useState<CheckStatus>('') (useFindId.ts:23)
    message,     \* useFindId: useState('')             (useFindId.ts:24)
    mounted,     \* whether FindIdPage is the active view
    requests,    \* checkDuplicate calls suspended at an await (fetch or json)
    nextId,      \* number of checkDuplicate calls started so far
    nFetch,      \* number of fetch() calls issued so far
    lastOp,      \* the operation that produced the current state
    hist,        \* what happened since the last edit / the last submit
    payload,     \* validateSignupData: its argument
    errors       \* validateSignupData: the returned mapping (field -> message)

vars == <<email, isChecking, status, message, mounted, requests, nextId,
          nFetch, lastOp, hist, payload, errors>>

hookVars == <<email, isChecking, status, message, mounted, hist>>
signupVars == <<payload, errors>>

----------------------------------------------------------------------------
\* Bounds of the model.

\* Total number of checkDuplicate calls started in one behaviour.
MaxCalls == 2
\* Longest value handed to checkDuplicate by a direct caller.
MaxValueLen == 2
\* Longest generated password / confirmation.
MaxPwLen == 9

----------------------------------------------------------------------------
\* Characters and sample strings.

Letters == {"a", "b", "c", "d", "e", "i", "l", "m", "o"}
Digits == {"1", "2"}

IsSpace(c) == c = " "

EmptyStr == <<>>
BlankStr == <<" ", " ", " ">>
BadEmail == <<"b", "a", "d", "-", "e", "m", "a", "i", "l">>
GoodEmail == <<"a", "@", "b", ".", "c", "o", "m">>
OtherEmail == <<"b", "@", "a", ".", "c", "o", "m">>
ShortTldEmail == <<"a", "@", "b", ".", "c">>
PaddedEmail == <<" ", "a", "@", "b", ".", "c", "o", "m", " ">>
DoubleDotEmail == <<"a", ".", ".", "b", "@", "b", ".", "c", "o", "m">>

RECURSIVE Repeat(_, _)
Repeat(c, n) == IF n = 0 THEN <<>> ELSE <<c>> \o Repeat(c, n - 1)

\* All strings over alphabet A of length at most n.
StringsUpTo(A, n) == UNION {[1..k -> A] : k \in 0..n}

----------------------------------------------------------------------------
\* String.prototype.trim, as used on the value in checkDuplicate.

RECURSIVE TrimLeft(_)
TrimLeft(s) ==
    IF s = <<>> THEN <<>>
    ELSE IF IsSpace(Head(s)) THEN TrimLeft(Tail(s))
    ELSE s

RECURSIVE TrimRight(_)
TrimRight(s) ==
    IF s = <<>> THEN <<>>
    ELSE IF IsSpace(s[Len(s)]) THEN TrimRight(SubSeq(s, 1, Len(s) - 1))
    ELSE s

Trim(s) == TrimRight(TrimLeft(s))

----------------------------------------------------------------------------
\* The two e-mail patterns.

AtPositions(s) == {i \in 1..Len(s) : s[i] = "@"}
DotPositions(s) == {i \in 1..Len(s) : s[i] = "."}
MaxOf(S) == CHOOSE m \in S : \A x \in S : x <= m

IsAlnum(c) == c \in Letters \cup Digits
IsLocalChar(c) == IsAlnum(c) \/ c \in {"_", "'", "+", "-", "."}
IsLocalLast(c) == IsAlnum(c) \/ c \in {"_", "+", "-"}

\* ([A-Z0-9][A-Z0-9\-]*\.)+[A-Z]{2,} on the part after the "@".
IsZodDomain(d) ==
    /\ DotPositions(d) # {}
    /\ LET p == MaxOf(DotPositions(d))
       IN  /\ Len(d) - p >= 2
           /\ \A i \in (p + 1)..Len(d) : d[i] \in Letters
           /\ \A i \in 1..p :
                /\ IsAlnum(d[i]) \/ d[i] \in {"-", "."}
                /\ (i = 1 \/ d[i - 1] = ".") => IsAlnum(d[i])

\* emailSchema.safeParse(s).success: z.string().email() of zod 3, whose pattern is
\* /^(?!\.)(?!.*\.\.)([A-Z0-9_'+\-\.]*)[A-Z0-9_+-]@([A-Z0-9][A-Z0-9\-]*\.)+[A-Z]{2,}$/i
EmailSchemaSuccess(s) ==
    /\ Cardinality(AtPositions(s)) = 1
    /\ s[1] # "."
    /\ \A i \in 1..(Len(s) - 1) : ~(s[i] = "." /\ s[i + 1] = ".")
    /\ LET k == MaxOf(AtPositions(s))
       IN  /\ k >= 2
           /\ \A i \in 1..(k - 1) : IsLocalChar(s[i])
           /\ IsLocalLast(s[k - 1])
           /\ IsZodDomain(SubSeq(s, k + 1, Len(s)))

\* emailRegex.test(s) with emailRegex = /^[^\s@]+@[^\s@]+\.[^\s@]+$/
EmailRegexTest(s) ==
    /\ Cardinality(AtPositions(s)) = 1
    /\ \A i \in 1..Len(s) : ~IsSpace(s[i])
    /\ LET k == MaxOf(AtPositions(s))
       IN  /\ k >= 2
           /\ \E j \in DotPositions(s) : j > k + 1 /\ j < Len(s)

----------------------------------------------------------------------------
\* Messages (ASCII glosses of the source's literals).

MsgInvalidEmail == "enter a valid email address"      \* useFindId.ts:18
MsgNotRegistered == "email is not registered"          \* useFindId.ts:48
MsgRegistered == "email is registered"                 \* useFindId.ts:51
MsgEnterEmail == "enter email"                         \* part_001:31, :108
MsgEnterUsername == "enter username"                   \* part_001:31, :111
MsgCheckFailed == "error during duplicate check"       \* part_001:55, :63
MsgEnterPassword == "enter password"                   \* part_001:109
MsgConfirmRequired == "password confirmation needed"   \* part_001:110
MsgEnterAddress == "enter address"                     \* part_001:112
MsgEmailFormat == "enter a correct email format"       \* part_001:117
MsgPasswordTooShort == "password must be 8 or more"    \* part_001:122
MsgPasswordMismatch == "passwords do not match"        \* part_001:127
\* Messages of the runtime's own errors, rethrown as they are (part_001:62).
MsgNetworkTypeError == "TypeError: fetch failed"
MsgJsonSyntaxError == "SyntaxError: unexpected token in JSON"
MsgNullTypeError == "TypeError: cannot read properties of null"
\* A message the backend supplies in {error: string}.
MsgAlreadyExists == "already exists"

----------------------------------------------------------------------------
\* AuthService.checkDuplicate.

API_BASE == "/api/auth"

Types == {"email", "username"}

Resolved == [kind |-> "resolved", message |-> ""]
Rejected(msg) == [kind |-> "rejected", message |-> msg]
NoOutcome == [kind |-> "none", message |-> ""]

\* The bodies a response can carry: not JSON at all, the JSON value null, a
\* JSON string, and JSON objects without or with an error member.
NoBody == [kind |-> "none", hasError |-> FALSE, error |-> ""]
Bodies ==
    {[kind |-> "notjson", hasError |-> FALSE, error |-> ""],
     [kind |-> "null", hasError |-> FALSE, error |-> ""],
     [kind |-> "string", hasError |-> FALSE, error |-> ""],
     [kind |-> "object", hasError |-> FALSE, error |-> ""],
     [kind |-> "object", hasError |-> TRUE, error |-> ""],
     [kind |-> "object", hasError |-> TRUE, error |-> MsgAlreadyExists]}

\* HTTP statuses the backend answers with; response.ok is status in 200..299.
HttpStatuses == {200, 409, 502}
ResponseOk(http) == http >= 200 /\ http <= 299

\* The URL of the check endpoint (part_001:38).
CheckUrl(type) ==
    IF type = "email" THEN <<API_BASE, "check", "email">>
    ELSE <<API_BASE, "check", "username">>

\* The guard written as !value, without the trim.
CheckDuplicateStartNoTrim(type, value) ==
    IF value = <<>>
    THEN [issued |-> FALSE,
          out |-> Rejected(IF type = "email" THEN MsgEnterEmail
                           ELSE MsgEnterUsername)]
    ELSE [issued |-> TRUE, out |-> NoOutcome]

\* The synchronous part of checkDuplicate, up to its first await: either the
\* call is rejected at once, or one fetch is issued.
CheckDuplicateStart(type, value) ==
    IF Trim(value) = <<>>
    THEN [issued |-> FALSE,
          out |-> Rejected(IF type = "email" THEN MsgEnterEmail
                           ELSE MsgEnterUsername)]
    ELSE [issued |-> TRUE, out |-> NoOutcome]

\* The request that fetch() sends (part_001:37-47), suspended at the await.
FetchRequest(id, caller, type, value) ==
    [id |-> id, caller |-> caller, type |-> type, url |-> CheckUrl(type),
     method |-> "POST", value |-> Trim(value), phase |-> "fetch", http |-> 0]

\* data.error || fallback (part_001:55)
ErrorOrFallback(body) ==
    IF body.hasError /\ body.error # "" THEN body.error ELSE MsgCheckFailed

\* checkDuplicate from "await response.json()" on (part_001:50-64).
CheckDuplicateFinish(http, body) ==
    IF body.kind = "notjson" THEN Rejected(MsgJsonSyntaxError)
    ELSE IF ~ResponseOk(http)
         THEN IF body.kind = "null" THEN Rejected(MsgNullTypeError)
              ELSE Rejected(ErrorOrFallback(body))
         ELSE Resolved

----------------------------------------------------------------------------
\* AuthService.validateSignupData.

Undefined == <<"<undefined>">>
Falsy(x) == x = Undefined \/ x = <<>>

MinPasswordLength == 8

Put(m, k, v) == [x \in (DOMAIN m) \cup {k} |-> IF x = k THEN v ELSE m[x]]
NoErrors == [x \in {} |-> ""]

\* A validation that returns at the first failing required field.
ValidateSignupDataFirstOnly(data) ==
    IF Falsy(data.email) THEN Put(NoErrors, "email", MsgEnterEmail)
    ELSE IF Falsy(data.password)
         THEN Put(NoErrors, "password", MsgEnterPassword)
    ELSE IF Falsy(data.confirmPassword)
         THEN Put(NoErrors, "confirmPassword", MsgConfirmRequired)
    ELSE IF Falsy(data.username)
         THEN Put(NoErrors, "username", MsgEnterUsername)
    ELSE IF Falsy(data.address) THEN Put(NoErrors, "address", MsgEnterAddress)
    ELSE IF ~EmailRegexTest(data.email)
         THEN Put(NoErrors, "email", MsgEmailFormat)
    ELSE IF Len(data.password) < MinPasswordLength
         THEN Put(NoErrors, "password", MsgPasswordTooShort)
    ELSE IF data.password # data.confirmPassword
         THEN Put(NoErrors, "confirmPassword", MsgPasswordMismatch)
    ELSE NoErrors

ValidateSignupData(data) ==
    LET e1 == IF Falsy(data.email)
              THEN Put(NoErrors, "email", MsgEnterEmail) ELSE NoErrors
        e2 == IF Falsy(data.password)
              THEN Put(e1, "password", MsgEnterPassword) ELSE e1
        e3 == IF Falsy(data.confirmPassword)
              THEN Put(e2, "confirmPassword", MsgConfirmRequired) ELSE e2
        e4 == IF Falsy(data.username)
              THEN Put(e3, "username", MsgEnterUsername) ELSE e3
        e5 == IF Falsy(data.address)
              THEN Put(e4, "address", MsgEnterAddress) ELSE e4
        e6 == IF ~Falsy(data.email) /\ ~EmailRegexTest(data.email)
              THEN Put(e5, "email", MsgEmailFormat) ELSE e5
        e7 == IF ~Falsy(data.password) /\ Len(data.password) < MinPasswordLength
              THEN Put(e6, "password", MsgPasswordTooShort) ELSE e6
        e8 == IF /\ ~Falsy(data.password)
                 /\ ~Falsy(data.confirmPassword)
                 /\ data.password # data.confirmPassword
              THEN Put(e7, "confirmPassword", MsgPasswordMismatch) ELSE e7
    IN  e8

----------------------------------------------------------------------------
\* State shared by the specifications.

Op(op, id, type, value, http, body, out) ==
    [op |-> op, id |-> id, type |-> type, value |-> value, http |-> http,
     body |-> body, out |-> out]

EmptyPayload ==
    [email |-> Undefined, password |-> Undefined, confirmPassword |-> Undefined,
     username |-> Undefined, address |-> Undefined]

\* The state after useFindId's first render, with nothing called yet.
Init ==
    /\ email = <<>>
    /\ isChecking = FALSE
    /\ status = ""
    /\ message = ""
    /\ mounted = TRUE
    /\ requests = {}
    /\ nextId = 0
    /\ nFetch = 0
    /\ lastOp = Op("init", 0, "", <<>>, 0, NoBody, NoOutcome)
    /\ hist = [changedSinceSubmit |-> FALSE, settledSinceChange |-> FALSE]
    /\ payload = EmptyPayload
    /\ errors = NoErrors

\* What the user (or a direct caller) can put in the e-mail field.
EmailInputs ==
    {EmptyStr, BadEmail, GoodEmail, OtherEmail, ShortTldEmail}

InFlightIds == {r.id : r \in requests}

----------------------------------------------------------------------------
\* useFindId.

\* onChangeEmail that leaves the message of the previous check on screen.
OnChangeEmailKeepMessage(v) ==
    /\ mounted
    /\ email' = v
    /\ status' = ""
    /\ hist' = [changedSinceSubmit |-> TRUE, settledSinceChange |-> FALSE]
    /\ lastOp' = Op("onChangeEmail", 0, "", v, 0, NoBody, NoOutcome)
    /\ UNCHANGED <<message, isChecking, mounted, requests, nextId, nFetch>>
    /\ UNCHANGED signupVars

\* onChangeEmail (useFindId.ts:26-30)
OnChangeEmail(v) ==
    /\ mounted
    /\ email' = v
    /\ status' = ""
    /\ message' = ""
    /\ hist' = [changedSinceSubmit |-> TRUE, settledSinceChange |-> FALSE]
    /\ lastOp' = Op("onChangeEmail", 0, "", v, 0, NoBody, NoOutcome)
    /\ UNCHANGED <<isChecking, mounted, requests, nextId, nFetch>>
    /\ UNCHANGED signupVars

\* The continuation of onCheckEmail after "await checkEmailDuplicate(email)":
\* the try branch on a resolved call, the catch branch on a rejected one
\* (useFindId.ts:46-51), and the finally block (useFindId.ts:52-54).
SettledStatusSwapped(out) ==
    IF out.kind = "resolved" THEN "success" ELSE "error"
SettledStatus(out) == IF out.kind = "resolved" THEN "error" ELSE "success"
SettledMessage(out) ==
    IF out.kind = "resolved" THEN MsgNotRegistered ELSE MsgRegistered
\* setIsChecking(false) at the end of the try block instead of in finally.
SettledCheckingInTry(out) == IF out.kind = "resolved" THEN FALSE ELSE isChecking
SettledChecking(out) == FALSE

\* The status onCheckEmail sets before the call (useFindId.ts:42).
CheckingStatusNotSet == status
CheckingStatus == "checking"

\* onCheckEmail from setIsChecking(true) to its await (useFindId.ts:41-46),
\* the synchronous part of checkEmailDuplicate -> checkDuplicate included
\* (part_001:28-47, 75-77).
StartCheck ==
    /\ nextId < MaxCalls
    /\ nextId' = nextId + 1
    /\ LET start == CheckDuplicateStart("email", email)
       IN  IF start.issued
           THEN /\ isChecking' = TRUE
                /\ status' = CheckingStatus
                /\ message' = ""
                /\ requests' = requests \cup
                       {FetchRequest(nextId + 1, "hook", "email", email)}
                /\ nFetch' = nFetch + 1
                /\ lastOp' = Op("onCheckEmail", nextId + 1, "email", email, 0,
                                NoBody, NoOutcome)
           ELSE \* rejected before any await: the catch and finally blocks
                \* run before any other event is handled
                /\ isChecking' = SettledChecking(start.out)
                /\ status' = SettledStatus(start.out)
                /\ message' = SettledMessage(start.out)
                /\ lastOp' = Op("onCheckEmail", nextId + 1, "email", email, 0,
                                NoBody, start.out)
                /\ UNCHANGED <<requests, nFetch>>

\* The handler without the return of useFindId.ts:38.
RejectLocallyNoReturn == StartCheck

\* The branch taken when safeParse fails (useFindId.ts:35-39).
RejectLocally ==
    /\ message' = MsgInvalidEmail
    /\ status' = "error"
    /\ lastOp' = Op("onCheckEmail", 0, "email", email, 0, NoBody,
                    [kind |-> "invalid", message |-> MsgInvalidEmail])
    /\ UNCHANGED <<isChecking, requests, nextId, nFetch>>

\* onCheckEmail up to its await (useFindId.ts:32-46).
OnCheckEmail ==
    /\ mounted
    /\ IF ~EmailSchemaSuccess(email) THEN RejectLocally ELSE StartCheck
    /\ hist' = [hist EXCEPT !.changedSinceSubmit = FALSE]
    /\ UNCHANGED <<email, mounted>>
    /\ UNCHANGED signupVars

\* A checkDuplicate call settles with outcome out and its caller continues.
\* A call made by useFindId runs the rest of onCheckEmail, which calls the
\* three setters whatever happened since the call was made.  lastOp keeps
\* what the caller reads: useFindId whether the call resolved or threw (its
\* catch block never reads the error), a direct caller the response and the
\* error as well.
Deliver(r, out, http, body) ==
    /\ requests' = requests \ {r}
    /\ IF r.caller = "hook"
       THEN /\ lastOp' = Op("settle", r.id, "", <<>>, 0, NoBody,
                            [kind |-> out.kind, message |-> ""])
            /\ status' = SettledStatus(out)
            /\ message' = SettledMessage(out)
            /\ isChecking' = SettledChecking(out)
            /\ hist' = [hist EXCEPT !.settledSinceChange = TRUE]
            /\ UNCHANGED <<email, mounted>>
       ELSE /\ lastOp' = Op("settle", r.id, "", <<>>, http, body, out)
            /\ UNCHANGED hookVars
    /\ UNCHANGED <<nextId, nFetch>>
    /\ UNCHANGED signupVars

\* fetch() rejects (no response at all): a TypeError, rethrown (part_001:62).
FetchRejects(r) ==
    /\ r \in requests
    /\ r.phase = "fetch"
    /\ Deliver(r, Rejected(MsgNetworkTypeError), 0, NoBody)

\* fetch() resolves with the response's status line and headers; the call
\* goes on to "await response.json()" (part_001:37-50).
FetchResolves(r, http) ==
    /\ r \in requests
    /\ r.phase = "fetch"
    /\ requests' = (requests \ {r}) \cup
                      {[r EXCEPT !.phase = "json", !.http = http]}
    /\ lastOp' = Op("fetchResolves", r.id, "", <<>>, 0, NoBody, NoOutcome)
    /\ UNCHANGED <<nextId, nFetch>>
    /\ UNCHANGED hookVars
    /\ UNCHANGED signupVars

\* response.json() settles on the body read (part_001:50-64).
JsonSettles(r, body) ==
    /\ r \in requests
    /\ r.phase = "json"
    /\ Deliver(r, CheckDuplicateFinish(r.http, body), r.http, body)

\* An unmount whose cleanup aborts the outstanding requests.
UnmountAborting ==
    /\ mounted
    /\ mounted' = FALSE
    /\ requests' = {}
    /\ lastOp' = Op("unmount", 0, "", <<>>, 0, NoBody, NoOutcome)
    /\ UNCHANGED <<email, isChecking, status, message, hist, nextId, nFetch>>
    /\ UNCHANGED signupVars

\* The user navigates away: FindIdPage unmounts.  useFindId registers no
\* cleanup and holds no abort handle, so nothing else changes.
Unmount ==
    /\ mounted
    /\ mounted' = FALSE
    /\ lastOp' = Op("unmount", 0, "", <<>>, 0, NoBody, NoOutcome)
    /\ UNCHANGED <<email, isChecking, status, message, hist, requests,
                   nextId, nFetch>>
    /\ UNCHANGED signupVars

Settle ==
    \E r \in requests :
        \/ FetchRejects(r)
        \/ \E http \in HttpStatuses : FetchResolves(r, http)
        \/ \E body \in Bodies : JsonSettles(r, body)

\* The controller driven directly: any handler at any time.
Next ==
    \/ \E v \in EmailInputs : OnChangeEmail(v)
    \/ OnCheckEmail
    \/ Settle
    \/ Unmount

Spec == Init /\ [][Next]_vars

\* Every request eventually gets an answer or fails.
SpecLive == Spec /\ WF_vars(Settle)

----------------------------------------------------------------------------
\* FindIdComponent: the controller driven through the form.

\* <Input disabled={isChecking}> (useFindId.ts:121-129)
InputDisabled == isChecking
ButtonDisabledOnEmptyOnly == email = <<>>
\* <Button disabled={!email || isChecking}> (useFindId.ts:134-140)
ButtonDisabled == email = <<>> \/ isChecking

InputChange(v) == ~InputDisabled /\ OnChangeEmail(v)

\* handleSubmit (useFindId.ts:93-96), reached through the submit button.
HandleSubmit == ~ButtonDisabled /\ OnCheckEmail

NextUI ==
    \/ \E v \in EmailInputs : InputChange(v)
    \/ HandleSubmit
    \/ Settle
    \/ Unmount

SpecUI == Init /\ [][NextUI]_vars

----------------------------------------------------------------------------
\* AuthService.checkDuplicate called directly.

ValueInputs ==
    StringsUpTo({"a", " "}, MaxValueLen) \cup {BlankStr, GoodEmail, PaddedEmail}

DirectCall(type, value) ==
    /\ nextId < MaxCalls
    /\ nextId' = nextId + 1
    /\ LET start == CheckDuplicateStart(type, value)
       IN  IF start.issued
           THEN /\ requests' = requests \cup
                       {FetchRequest(nextId + 1, "direct", type, value)}
                /\ nFetch' = nFetch + 1
                /\ lastOp' = Op("call", nextId + 1, type, value, 0, NoBody,
                                NoOutcome)
           ELSE /\ lastOp' = Op("call", nextId + 1, type, value, 0, NoBody,
                                start.out)
                /\ UNCHANGED <<requests, nFetch>>
    /\ UNCHANGED hookVars
    /\ UNCHANGED signupVars

NextSvc ==
    \/ \E type \in Types, value \in ValueInputs : DirectCall(type, value)
    \/ Settle

SpecSvc == Init /\ [][NextSvc]_vars

----------------------------------------------------------------------------
\* AuthService.validateSignupData applied to a payload.

PasswordInputs ==
    {Undefined} \cup {Repeat("a", n) : n \in 0..MaxPwLen}
                \cup {Repeat("b", n) : n \in 0..MaxPwLen}
EmailFieldInputs ==
    {Undefined, EmptyStr, BadEmail, GoodEmail, ShortTldEmail, PaddedEmail,
     DoubleDotEmail}
TextInputs == {Undefined, EmptyStr, <<"a">>}

Payloads ==
    [email : EmailFieldInputs, password : PasswordInputs,
     confirmPassword : PasswordInputs, username : TextInputs,
     address : TextInputs]

InitVal ==
    /\ email = <<>>
    /\ isChecking = FALSE
    /\ status = ""
    /\ message = ""
    /\ mounted = TRUE
    /\ requests = {}
    /\ nextId = 0
    /\ nFetch = 0
    /\ lastOp = Op("init", 0, "", <<>>, 0, NoBody, NoOutcome)
    /\ hist = [changedSinceSubmit |-> FALSE, settledSinceChange |-> FALSE]
    /\ payload \in Payloads
    /\ errors = NoErrors

Validate ==
    /\ lastOp.op = "init"
    /\ errors' = ValidateSignupData(payload)
    /\ lastOp' = Op("validate", 0, "", <<>>, 0, NoBody, NoOutcome)
    /\ UNCHANGED <<payload, requests, nextId, nFetch>>
    /\ UNCHANGED hookVars

NextVal == Validate

SpecVal == InitVal /\ [][NextVal]_vars

----------------------------------------------------------------------------
\* Properties.

CallIds == 1..MaxCalls

\* C1 (as stated): when a call made by onCheckEmail settles, a resolved call
\* gives status 'success' with the "registered" message and a rejected call
\* gives status 'error' with the "not registered" message.
C1_AsStated ==
    lastOp.op = "settle" =>
        IF lastOp.out.kind = "resolved"
        THEN status = "success" /\ message = MsgRegistered
        ELSE status = "error" /\ message = MsgNotRegistered

\* C1 (amended): when a call made by onCheckEmail settles, a resolved call
\* gives status 'error' with the "not registered" message and a rejected call
\* gives status 'success' with the "registered" message.
C1_SettledDisplay ==
    lastOp.op = "settle" =>
        IF lastOp.out.kind = "resolved"
        THEN status = "error" /\ message = MsgNotRegistered
        ELSE status = "success" /\ message = MsgRegistered

C1_Witness ==
    /\ lastOp.op = "settle"
    /\ lastOp.out.kind = "resolved"
    /\ email = GoodEmail
    /\ status = "error"

\* C2: every call that onCheckEmail started is eventually settled with
\* isChecking false in the state its continuation leaves, whether it resolved
\* or was rejected; isChecking is false whenever no call is outstanding.
C2_CheckingCleared ==
    /\ [](lastOp.op = "settle" => ~isChecking)
    /\ [](isChecking => requests # {})
    /\ \A id \in CallIds :
           (id \in InFlightIds) ~>
               (lastOp.op = "settle" /\ lastOp.id = id /\ ~isChecking)

C2_Witness ==
    /\ lastOp.op = "settle"
    /\ lastOp.out.kind = "rejected"
    /\ requests = {}
    /\ ~isChecking

\* C3: an onCheckEmail step on an e-mail that fails the format check sets
\* status 'error' and the validation message, issues no fetch, starts no call
\* and leaves isChecking as it was (so status is not 'checking').
C3_LocalRejection ==
    [][(lastOp'.op = "onCheckEmail" /\ ~EmailSchemaSuccess(email))
        => /\ status' = "error"
           /\ message' = MsgInvalidEmail
           /\ nFetch' = nFetch
           /\ requests' = requests
           /\ nextId' = nextId
           /\ isChecking' = isChecking]_vars

C3_Witness ==
    /\ lastOp.op = "onCheckEmail"
    /\ lastOp.value = BadEmail
    /\ status = "error"
    /\ message = MsgInvalidEmail
    /\ nFetch = 0

\* C4: an onCheckEmail step on an e-mail that passes the format check issues
\* exactly one fetch and leaves status 'checking', isChecking true and the
\* call outstanding; the step that settles a call leaves status 'success' or
\* 'error'.
C4_OneCallThroughChecking ==
    /\ [][(lastOp'.op = "onCheckEmail" /\ EmailSchemaSuccess(email))
           => /\ nFetch' = nFetch + 1
              /\ status' = "checking"
              /\ isChecking'
              /\ \E r \in requests' :
                    /\ r \notin requests
                    /\ requests' = requests \cup {r}
                    /\ r.id = lastOp'.id
                    /\ r.value = email
                    /\ r.phase = "fetch"]_vars
    /\ [][lastOp'.op # "onCheckEmail" => nFetch' = nFetch]_vars
    /\ [](lastOp.op = "settle" => status \in {"success", "error"})

C4_Witness ==
    /\ lastOp.op = "settle"
    /\ nextId = 1
    /\ nFetch = 1
    /\ requests = {}
    /\ status \in {"success", "error"}

\* Blank: only white space.  Core(v, w): w is v without its leading and
\* trailing white space.
IsBlank(v) == \A i \in 1..Len(v) : IsSpace(v[i])
Core(v, w) ==
    /\ w # <<>>
    /\ ~IsSpace(w[1])
    /\ ~IsSpace(w[Len(w)])
    /\ \E i \in 0..Len(v), j \in 0..Len(v) :
          v = Repeat(" ", i) \o w \o Repeat(" ", j)

\* C5: a checkDuplicate call with a blank value is rejected and issues no
\* fetch; a call with a non-blank value issues exactly one POST to the check
\* URL of its kind whose body carries the kind and the trimmed value.
C5_BlankGuard ==
    [][lastOp'.op = "call"
        => IF IsBlank(lastOp'.value)
           THEN /\ lastOp'.out.kind = "rejected"
                /\ nFetch' = nFetch
                /\ requests' = requests
           ELSE /\ lastOp'.out.kind = "none"
                /\ nFetch' = nFetch + 1
                /\ \E r \in requests' :
                      /\ r \notin requests
                      /\ requests' = requests \cup {r}
                      /\ r.id = lastOp'.id
                      /\ r.method = "POST"
                      /\ r.url = <<API_BASE, "check", lastOp'.type>>
                      /\ r.type = lastOp'.type
                      /\ Core(lastOp'.value, r.value)]_vars

C5_Witness ==
    /\ lastOp.op = "call"
    /\ lastOp.value = PaddedEmail
    /\ \E r \in requests : r.id = lastOp.id /\ r.value = GoodEmail

\* C6: whatever response comes back, checkDuplicate resolves on a success
\* status, and on any other status is rejected with the server's message when
\* the body has one and with the generic message otherwise.
C6_ResponseHandling ==
    (lastOp.op = "settle" /\ lastOp.body.kind # "none") =>
        IF ResponseOk(lastOp.http)
        THEN lastOp.out.kind = "resolved"
        ELSE lastOp.out =
                 Rejected(IF lastOp.body.hasError /\ lastOp.body.error # ""
                          THEN lastOp.body.error ELSE MsgCheckFailed)

Fields == {"email", "password", "confirmPassword", "username", "address"}

FailsAsStated(d, f) ==
    CASE f = "email" -> Falsy(d.email) \/ ~EmailRegexTest(d.email)
      [] f = "password" ->
             Falsy(d.password) \/ Len(d.password) < MinPasswordLength
      [] f = "confirmPassword" ->
             Falsy(d.confirmPassword) \/ d.confirmPassword # d.password
      [] f = "username" -> Falsy(d.username)
      [] f = "address" -> Falsy(d.address)

Fails(d, f) ==
    IF f = "confirmPassword"
    THEN \/ Falsy(d.confirmPassword)
         \/ ~Falsy(d.password) /\ d.confirmPassword # d.password
    ELSE FailsAsStated(d, f)

RequiredFieldErrors ==
    [email |-> MsgEnterEmail, password |-> MsgEnterPassword,
     confirmPassword |-> MsgConfirmRequired, username |-> MsgEnterUsername,
     address |-> MsgEnterAddress]

\* C7 (as stated): the keys of the mapping validateSignupData returns are
\* the fields with a failing check, confirmPassword failing when it is
\* missing or differs from password.
C7_AsStated ==
    lastOp.op = "validate" =>
        DOMAIN errors = {f \in Fields : FailsAsStated(payload, f)}

\* C7 (amended): the keys of the mapping are the fields with a failing check,
\* confirmPassword failing when it is missing, or when password is present
\* and differs from it; the empty payload yields the five required-field
\* messages.
C7_AllFailingChecks ==
    lastOp.op = "validate" =>
        /\ DOMAIN errors = {f \in Fields : Fails(payload, f)}
        /\ payload = EmptyPayload => errors = RequiredFieldErrors

C7_Witness ==
    /\ lastOp.op = "validate"
    /\ payload.email = GoodEmail
    /\ payload.password = Repeat("a", MinPasswordLength)
    /\ payload.confirmPassword = Repeat("b", MinPasswordLength)
    /\ payload.username = Undefined
    /\ DOMAIN errors = {"confirmPassword", "username"}

\* C8 (as stated, its consequence): when the e-mail has changed since the
\* last submit and no request is outstanding, status and message are empty.
C8_AsStated ==
    (hist.changedSinceSubmit /\ requests = {}) => (status = "" /\ message = "")

\* C8 (amended): an onChangeEmail step sets email to the new value, empties
\* status and message and leaves isChecking and the outstanding requests as
\* they were; when the e-mail has changed since the last submit and no
\* request has settled since that change, status and message are empty.
C8_ChangeResets ==
    /\ [][lastOp'.op = "onChangeEmail"
           => /\ email' = lastOp'.value
              /\ status' = ""
              /\ message' = ""
              /\ isChecking' = isChecking
              /\ requests' = requests
              /\ nFetch' = nFetch]_vars
    /\ []((hist.changedSinceSubmit /\ ~hist.settledSinceChange)
            => (status = "" /\ message = ""))

C8_Witness ==
    /\ lastOp.op = "onChangeEmail"
    /\ lastOp.value = OtherEmail
    /\ email = OtherEmail
    /\ isChecking
    /\ requests # {}
    /\ status = ""

\* C9: driven through the form, at most one request is outstanding and
\* isChecking is true whenever one is.
C9_OneInFlight ==
    /\ Cardinality(requests) <= 1
    /\ requests # {} => isChecking

C9_Witness ==
    /\ nextId = 2
    /\ Cardinality(requests) = 1
    /\ isChecking
    /\ status = "checking"

\* C10: a request leaves the outstanding set only by settling, whatever
\* happens in between (an edit, another submit, the view unmounting), and the
\* step that settles it writes status, message and isChecking = false.
C10_NoCancellation ==
    /\ [][\A r \in requests :
            \/ \E q \in requests' :
                  /\ q.id = r.id
                  /\ q.value = r.value
                  /\ q = r \/ lastOp'.op = "fetchResolves"
            \/ /\ lastOp'.op = "settle"
               /\ lastOp'.id = r.id
               /\ status' \in {"success", "error"}
               /\ message' \in {MsgRegistered, MsgNotRegistered}
               /\ ~isChecking']_vars
    /\ [](lastOp.op = "settle" =>
            /\ status \in {"success", "error"}
            /\ message \in {MsgRegistered, MsgNotRegistered}
            /\ ~isChecking)

\* A response that arrives after the e-mail was edited and the view left,
\* and overwrites the status the edit had emptied.
C10_Witness ==
    /\ lastOp.op = "settle"
    /\ hist.changedSinceSubmit
    /\ ~mounted
    /\ status # ""

====
